---------------------------- MODULE Spec2Model ----------------------------
(***************************************************************************)
(* Model of the animated GIF muxer, libavformat/gif.c.                     *)
(*                                                                         *)
(* The muxer is driven by the stream framework: gif_write_header once,     *)
(* gif_write_packet once per packet, gif_write_trailer once.  The state is *)
(* the GIFContext (loop, prev_pts), the bytes appended to the AVIOContext  *)
(* and the return value of the last call.                                  *)
(*                                                                         *)
(* Number representation.  TLC integers are 32 bits wide, so               *)
(*   - an int64_t (a timestamp) is a tuple of four 16-bit limbs, most      *)
(*     significant first, in two's complement;                             *)
(*   - a uint32_t (a palette entry) is a pair <<hi, lo>> of 16-bit halves; *)
(*   - an int (width, height, loop, duration) is a TLC integer.            *)
(***************************************************************************)
EXTENDS Integers, Sequences, FiniteSets, TLC

VARIABLES
    cfg,        \* the stream the framework hands to gif_write_header
    loop,       \* GIFContext.loop
    prev_pts,   \* GIFContext.prev_pts
    out,        \* the bytes written to s->pb, in order
    phase,      \* "new" | "muxing" | "done" | "failed"
    ret,        \* return value of the last muxer call
    calls       \* history: one record per gif_write_packet call

vars == <<cfg, loop, prev_pts, out, phase, ret, calls>>

\* ------------------------------------------------------------- bounds

MaxFrames == 3
MaxTsFrames == 4

\* ---------------------------------------------------------- constants

AVPALETTE_COUNT == 256
AVPALETTE_SIZE == 1024
AVERROR_EINVAL == -22
AVERROR_INVALIDDATA == -1094995529

W16 == 256 * 256

\* ------------------------------------------------- 64-bit arithmetic

\* An int64_t from a small integer n (|n| < 2^31), sign-extended.
I64(n) ==
    LET s == IF n < 0 THEN 65535 ELSE 0
    IN  <<s, s, (n \div W16) % W16, n % W16>>

AV_NOPTS_VALUE == <<32768, 0, 0, 0>>
INT64_MAX == <<32767, 65535, 65535, 65535>>

IsNeg64(a) == a[1] >= 32768

\* a - b in 64-bit two's complement (the wrapped result).
Sub64(a, b) ==
    LET d0 == a[4] - b[4]
        c0 == IF d0 < 0 THEN 1 ELSE 0
        d1 == a[3] - b[3] - c0
        c1 == IF d1 < 0 THEN 1 ELSE 0
        d2 == a[2] - b[2] - c1
        c2 == IF d2 < 0 THEN 1 ELSE 0
        d3 == a[1] - b[1] - c2
    IN  <<d3 % W16, d2 % W16, d1 % W16, d0 % W16>>

\* The int64_t subtraction a - b overflows: the operands differ in sign and
\* the wrapped result has the sign of b.
SubOverflows(a, b) ==
    /\ IsNeg64(a) # IsNeg64(b)
    /\ IsNeg64(Sub64(a, b)) # IsNeg64(a)

\* Conversion of an int64_t to int: the low 32 bits, as a signed value.
ToInt(d) ==
    (IF d[3] >= 32768 THEN d[3] - W16 ELSE d[3]) * W16 + d[4]

\* ------------------------------------------------------ avio writers

avio_w8(b) == <<b % 256>>

avio_wl16(v) == <<v % 256, (v \div 256) % 256>>

\* v is a 24-bit value given as <<hi, lo>> with hi < 256.
avio_wb24(v) == <<v[1] % 256, (v[2] \div 256) % 256, v[2] % 256>>

\* ----------------------------------------------------------- palettes

\* A palette entry 0xAARRGGBB as <<hi, lo>>.
Entry(a, r, g, b) == <<a * 256 + r, g * 256 + b>>

Alpha(v) == v[1] \div 256

\* A palette pointer: NULL (present = FALSE) or size bytes of entries.
NoPalette == [present |-> FALSE, size |-> 0, entries |-> <<>>]

Palette(f) == [present |-> TRUE, size |-> AVPALETTE_SIZE, entries |-> f]

\* The systematic palettes avpriv_set_systematic_pal2 fills in for
\* GRAY8, RGB8 and BGR8; every entry is opaque.
GrayPal == [i \in 0..255 |-> Entry(255, i, i, i)]

Rgb8Pal ==
    [i \in 0..255 |->
        Entry(255, (i \div 32) * 36, ((i \div 4) % 8) * 36, (i % 4) * 85)]

Bgr8Pal ==
    [i \in 0..255 |->
        Entry(255, (i % 8) * 36, ((i \div 8) % 8) * 36, (i \div 64) * 85)]

GlobalPalettes == {NoPalette, Palette(GrayPal), Palette(Rgb8Pal), Palette(Bgr8Pal)}

\* Side-data palettes of packets: any 256 32-bit values.
OpaquePal == [i \in 0..255 |-> Entry(255, i, 0, 255 - i)]

Min50Pal ==
    [i \in 0..255 |-> Entry(IF i \in {7, 200} THEN 50 ELSE 255, i, i, i)]

Min200Pal ==
    [i \in 0..255 |-> Entry(IF i \in {40, 41} THEN 200 ELSE 230, i, 1, 2)]

Min127Pal ==
    [i \in 0..255 |-> Entry(IF i = 255 THEN 127 ELSE 128 + (i % 10), 0, i, 0)]

Min128Pal ==
    [i \in 0..255 |-> Entry(IF i \in {3, 31} THEN 128 ELSE 129, 9, 9, i)]

FadingPal == [i \in 0..255 |-> Entry(255 - 16 * (i \div 16), i, i, i)]

ClearPal == [i \in 0..255 |-> Entry(0, i, 255, i)]

SidePalettes ==
    {Palette(OpaquePal), Palette(Min50Pal), Palette(Min200Pal),
     Palette(Min127Pal), Palette(Min128Pal), Palette(FadingPal),
     Palette(ClearPal)}

\* Side data of another size than AVPALETTE_SIZE: 255 entries, 257 entries.
BadPalettes ==
    {[present |-> TRUE, size |-> AVPALETTE_SIZE - 4, entries |-> Min50Pal],
     [present |-> TRUE, size |-> AVPALETTE_SIZE + 4, entries |-> OpaquePal]}

\* -------------------------------------------- gif_image_write_header

RECURSIVE GlobalClut(_, _, _)
\* The loop over the palette, iterations lo..hi in order: each entry as
\* avio_wb24(palette[i] & 0xffffff).  (The range is halved to keep the
\* evaluation shallow; the bytes are those of the loop.)
GlobalClut(entries, lo, hi) ==
    IF lo > hi THEN <<>>
    ELSE IF lo = hi
         THEN avio_wb24(<<entries[lo][1] % 256, entries[lo][2]>>)
         ELSE LET mid == (lo + hi) \div 2
              IN  GlobalClut(entries, lo, mid) \o GlobalClut(entries, mid + 1, hi)

\* Mutant: the background colour index left at 0 with a global palette.
ScreenDescriptorBackground0(palette) ==
    IF palette.present
    THEN avio_w8(247) \o avio_w8(0) \o avio_w8(0)
             \o GlobalClut(palette.entries, 0, AVPALETTE_COUNT - 1)
    ELSE avio_w8(0) \o avio_w8(0) \o avio_w8(0)

ScreenDescriptor(palette) ==
    IF palette.present
    THEN avio_w8(247) \o avio_w8(31) \o avio_w8(0)
             \o GlobalClut(palette.entries, 0, AVPALETTE_COUNT - 1)
    ELSE avio_w8(0) \o avio_w8(0) \o avio_w8(0)

\* "NETSCAPE EXTENSION" for looped animation GIF.
NetscapeExtension(loop_count) ==
    avio_w8(33) \o avio_w8(255) \o avio_w8(11)
        \o <<78, 69, 84, 83, 67, 65, 80, 69, 50, 46, 48>>
        \o avio_w8(3) \o avio_w8(1)
        \o avio_wl16(loop_count % W16)
        \o avio_w8(0)

\* Mutant: height written before width.
gif_image_write_header_swapped(width, height, loop_count, palette) ==
    <<71, 73, 70>> \o <<56, 57, 97>>
        \o avio_wl16(height) \o avio_wl16(width)
        \o ScreenDescriptor(palette)
        \o NetscapeExtension(loop_count)

gif_image_write_header(width, height, loop_count, palette) ==
    <<71, 73, 70>> \o <<56, 57, 97>>
        \o avio_wl16(width) \o avio_wl16(height)
        \o ScreenDescriptor(palette)
        \o NetscapeExtension(loop_count)

\* --------------------------------------------------- gif_write_packet

\* Mutant: only a palette that is too small is rejected.
PaletteInvalidTooSmall(palette) == palette.present /\ palette.size < AVPALETTE_SIZE

PaletteInvalid(palette) == palette.present /\ palette.size # AVPALETTE_SIZE

\* Mutant: <= in place of <, so a later entry of equal alpha wins.
ScanStepLast(entries, i, acc) ==
    IF Alpha(entries[i]) <= acc.smallest_alpha
    THEN [smallest_alpha |-> Alpha(entries[i]), transparent_color_index |-> i]
    ELSE acc

\* One iteration of the loop over the side-data palette; acc holds
\* smallest_alpha and transparent_color_index.
ScanStep(entries, i, acc) ==
    IF Alpha(entries[i]) < acc.smallest_alpha
    THEN [smallest_alpha |-> Alpha(entries[i]), transparent_color_index |-> i]
    ELSE acc

RECURSIVE ScanAlpha(_, _, _, _)
\* Iterations lo..hi of the loop, in order, from acc.  (The range is halved
\* to keep the evaluation shallow; the iterations run in the loop's order,
\* the first half's result being computed before the second half starts.)
ScanAlpha(entries, lo, hi, acc) ==
    IF lo > hi THEN acc
    ELSE IF lo = hi
         THEN ScanStep(entries, lo, acc)
         ELSE LET mid == (lo + hi) \div 2
                  left == ScanAlpha(entries, lo, mid, acc)
              IN  IF left.smallest_alpha <= 255
                  THEN ScanAlpha(entries, mid + 1, hi, left)
                  ELSE left

\* Mutant: the transparent colour flag set for alpha 128 too.
TransparencyAtMost128(palette) ==
    LET start == [smallest_alpha |-> 255, transparent_color_index |-> 31]
    IN  IF palette.present
        THEN LET acc == ScanAlpha(palette.entries, 0, AVPALETTE_COUNT - 1, start)
             IN  [flags |-> IF acc.smallest_alpha <= 128 THEN 5 ELSE 4,
                  transparent_color_index |-> acc.transparent_color_index]
        ELSE [flags |-> 4, transparent_color_index |-> 31]

\* flags and transparent_color_index as gif_write_packet leaves them.
Transparency(palette) ==
    LET start == [smallest_alpha |-> 255, transparent_color_index |-> 31]
    IN  IF palette.present
        THEN LET acc == ScanAlpha(palette.entries, 0, AVPALETTE_COUNT - 1, start)
             IN  [flags |-> IF acc.smallest_alpha < 128 THEN 5 ELSE 4,
                  transparent_color_index |-> acc.transparent_color_index]
        ELSE [flags |-> 4, transparent_color_index |-> 31]

\* av_clip_uint16 of an int.
av_clip_uint16(a) == IF a < 0 THEN 0 ELSE IF a > 65535 THEN 65535 ELSE a

\* Mutant: the operands of the subtraction exchanged.
DurationReversed(pts, prev) ==
    IF pts = AV_NOPTS_VALUE THEN {0}
    ELSE LET wrapped == av_clip_uint16(ToInt(Sub64(prev, pts)))
         IN  IF SubOverflows(prev, pts) THEN {wrapped, 0, 65535} ELSE {wrapped}

\* The values duration can take.  pkt->pts - gif->prev_pts is an int64_t
\* subtraction whose result is converted to the int parameter of
\* av_clip_uint16.  A signed overflow of the subtraction is undefined: the
\* build may wrap, or leave either end of the clipped range.
Duration(pts, prev) ==
    IF pts = AV_NOPTS_VALUE THEN {0}
    ELSE LET wrapped == av_clip_uint16(ToInt(Sub64(pts, prev)))
         IN  IF SubOverflows(pts, prev) THEN {wrapped, 0, 65535} ELSE {wrapped}

\* graphic control extension block
ControlBlock(flags, duration, transparent_color_index) ==
    avio_w8(33) \o avio_w8(249) \o avio_w8(4)
        \o avio_w8(flags)
        \o avio_wl16(duration)
        \o avio_w8(transparent_color_index)
        \o avio_w8(0)

\* Mutant: the payload written before its control block.
PacketBytesPayloadFirst(flags, duration, transparent_color_index, data) ==
    data \o ControlBlock(flags, duration, transparent_color_index)

PacketBytes(flags, duration, transparent_color_index, data) ==
    ControlBlock(flags, duration, transparent_color_index) \o data

\* Mutant: prev_pts kept when the packet has no timestamp.
NextPrevPtsSkipSentinel(pts, prev) == IF pts = AV_NOPTS_VALUE THEN prev ELSE pts

\* gif->prev_pts after a packet that passed the palette check.
NextPrevPts(pts, prev) == pts

TrailerBytes == avio_w8(59)

\* ------------------------------------------------------------- inputs

\* A stream as gif_write_header reads it.
Stream(n, type, id, w, h, pal) ==
    [nb_streams |-> n, codec_type |-> type, codec_id |-> id,
     width |-> w, height |-> h, palette |-> pal]

GifStream(w, h, pal) == Stream(1, "VIDEO", "GIF", w, h, pal)

Dims == {0, 1, 255, 256, 320, 65535, 65541}

\* The option "loop" is an int in [0, 65535].
Loops == {0, 1, 255, 256, 65535}

HeaderStreams ==
    {GifStream(w, h, pal) : w \in Dims, h \in Dims, pal \in GlobalPalettes}
        \cup {Stream(2, "VIDEO", "GIF", 320, 200, NoPalette),
              Stream(1, "AUDIO", "GIF", 320, 200, NoPalette),
              Stream(1, "VIDEO", "PNG", 320, 200, NoPalette)}

SessionStreams ==
    {GifStream(320, 200, NoPalette), GifStream(1, 65535, Palette(Rgb8Pal))}

Packet(pts, data, pal) == [pts |-> pts, data |-> data, palette |-> pal]

\* Packets of a session: every side-data palette, three payloads.
Packets ==
    {Packet(I64(150), <<33, 249, 4, 0>>, pal) : pal \in SidePalettes \cup BadPalettes}
        \cup {Packet(I64(0), <<44, 0, 59>>, NoPalette),
              Packet(I64(100), <<>>, NoPalette),
              Packet(AV_NOPTS_VALUE, <<44, 0, 59>>, NoPalette)}

Timestamps ==
    {AV_NOPTS_VALUE, I64(-1), I64(0), I64(100), I64(150), I64(65685),
     I64(100000), <<0, 1, 0, 105>>, INT64_MAX}

\* Packets that differ in their timestamps, and one the palette check rejects.
TsPackets ==
    {Packet(t, <<44>>, NoPalette) : t \in Timestamps}
        \cup {Packet(I64(100000), <<44>>,
                     [present |-> TRUE, size |-> AVPALETTE_SIZE - 4,
                      entries |-> Min50Pal])}

\* ------------------------------------------------------------ actions

\* Mutant: prev_pts starting as "no timestamp".
InitialPrevPtsUnset == AV_NOPTS_VALUE

\* priv_data is allocated zeroed (priv_data_size) and nothing sets prev_pts
\* before the first packet.
InitialPrevPts == I64(0)

InitWith(streams, loops) ==
    /\ cfg \in streams
    /\ loop \in loops
    /\ prev_pts = InitialPrevPts
    /\ out = <<>>
    /\ phase = "new"
    /\ ret = 0
    /\ calls = <<>>

gif_write_header ==
    /\ phase = "new"
    /\ IF \/ cfg.nb_streams # 1
          \/ cfg.codec_type # "VIDEO"
          \/ cfg.codec_id # "GIF"
       THEN /\ ret' = AVERROR_EINVAL
            /\ phase' = "failed"
            /\ out' = out
       ELSE /\ out' = out \o gif_image_write_header(cfg.width, cfg.height,
                                                     loop, cfg.palette)
            /\ ret' = 0
            /\ phase' = "muxing"
    /\ UNCHANGED <<cfg, loop, prev_pts, calls>>

gif_write_packet(pkt) ==
    /\ phase = "muxing"
    /\ IF PaletteInvalid(pkt.palette)
       THEN /\ ret' = AVERROR_INVALIDDATA
            /\ calls' = Append(calls, [pkt |-> pkt, ret |-> AVERROR_INVALIDDATA,
                                       prev |-> prev_pts, at |-> Len(out)])
            /\ UNCHANGED <<prev_pts, out>>
       ELSE \E duration \in Duration(pkt.pts, prev_pts) :
                LET t == Transparency(pkt.palette)
                IN  /\ prev_pts' = NextPrevPts(pkt.pts, prev_pts)
                    /\ out' = out \o PacketBytes(t.flags, duration,
                                                 t.transparent_color_index,
                                                 pkt.data)
                    /\ ret' = 0
                    /\ calls' = Append(calls, [pkt |-> pkt, ret |-> 0,
                                               prev |-> prev_pts,
                                               at |-> Len(out)])
    /\ UNCHANGED <<cfg, loop, phase>>

gif_write_trailer ==
    /\ phase = "muxing"
    /\ out' = out \o TrailerBytes
    /\ ret' = 0
    /\ phase' = "done"
    /\ UNCHANGED <<cfg, loop, prev_pts, calls>>

\* A session: any packets, with or without side-data palettes.
Init == InitWith(SessionStreams, {3})

WritePacket == \E pkt \in Packets : Len(calls) < MaxFrames /\ gif_write_packet(pkt)

Next == gif_write_header \/ WritePacket \/ gif_write_trailer

Spec == Init /\ [][Next]_vars

\* A session whose packets range over the timestamps.
InitTs == InitWith({GifStream(320, 200, NoPalette)}, {0})

WriteTsPacket ==
    \E pkt \in TsPackets : Len(calls) < MaxTsFrames /\ gif_write_packet(pkt)

NextTs == gif_write_header \/ WriteTsPacket \/ gif_write_trailer

SpecTs == InitTs /\ [][NextTs]_vars

\* The header of every stream, and the empty session.
InitHeader == InitWith(HeaderStreams, Loops)

NextHeader == gif_write_header \/ gif_write_trailer

SpecHeader == InitHeader /\ [][NextHeader]_vars

\* ------------------------------------------- reading the sink back

Ok(i) == calls[i].ret = 0

Written == {i \in 1..Len(calls) : Ok(i)}

\* First and last packet written so far.
IsFirst(i) == Ok(i) /\ \A j \in 1..(i - 1) : ~Ok(j)

\* The fields of the control block gif_write_packet call i appended.
WrittenFlags(i) == out[calls[i].at + 4]

WrittenDuration(i) == out[calls[i].at + 5] + 256 * out[calls[i].at + 6]

WrittenIndex(i) == out[calls[i].at + 7]

HeaderDone == phase \in {"muxing", "done"}

\* Length of the header as the claims state it.
HeaderLen == 32 + (IF cfg.palette.present THEN 768 ELSE 0)

RECURSIVE SizeBefore(_)
\* Where the bytes of call i start if every written packet before it holds
\* 8 bytes of control block and its payload, from the end of the header on.
SizeBefore(i) ==
    IF i <= 1 THEN HeaderLen
    ELSE SizeBefore(i - 1)
             + (IF Ok(i - 1) THEN 8 + Len(calls[i - 1].pkt.data) ELSE 0)

NetscapeId == <<78, 69, 84, 83, 67, 65, 80, 69, 50, 46, 48>>

\* Signed comparison a < b of two int64_t.
Less64(a, b) ==
    LET ka == <<(a[1] + 32768) % W16, a[2], a[3], a[4]>>
        kb == <<(b[1] + 32768) % W16, b[2], b[3], b[4]>>
    IN  \E k \in 1..4 : ka[k] < kb[k] /\ \A j \in 1..(k - 1) : ka[j] = kb[j]

\* The mathematical difference b - a lies in [0, 65535].
SmallStep(a, b) ==
    LET d == Sub64(b, a)
    IN  ~Less64(b, a) /\ d[1] = 0 /\ d[2] = 0 /\ d[3] = 0

\* The smallest alpha of a palette and the lowest position holding it.
MinAlpha(entries) ==
    LET S == {Alpha(entries[i]) : i \in 0..255}
    IN  CHOOSE a \in S : \A b \in S : a <= b

LowestPosition(entries, a) ==
    CHOOSE i \in 0..255 :
        Alpha(entries[i]) = a /\ \A j \in 0..(i - 1) : Alpha(entries[j]) # a

\* -------------------------------------------------------------- claims

\* C1: after header, n successfully written frames and the trailer, the sink
\* holds the header (32 bytes, +768 with a global palette), then per written
\* frame in arrival order an 8-byte control block 21 F9 04 .. 00 followed by
\* the frame's payload unmodified, then the single byte 3B, and nothing else.
C1_SinkLayout ==
    phase = "done" =>
        /\ Len(out) = SizeBefore(Len(calls) + 1) + 1
        /\ SubSeq(out, 1, 6) = <<71, 73, 70, 56, 57, 97>>
        /\ SubSeq(out, HeaderLen - 18, HeaderLen - 16) = <<33, 255, 11>>
        /\ SubSeq(out, HeaderLen - 15, HeaderLen - 5) = NetscapeId
        /\ out[HeaderLen] = 0
        /\ \A i \in Written :
               LET o == SizeBefore(i)
                   d == calls[i].pkt.data
               IN  /\ SubSeq(out, o + 1, o + 3) = <<33, 249, 4>>
                   /\ out[o + 8] = 0
                   /\ SubSeq(out, o + 9, o + 8 + Len(d)) = d
        /\ out[Len(out)] = 59

C1_Witness ==
    /\ phase = "done"
    /\ cfg.palette.present
    /\ Len(calls) = 3
    /\ Written = {1, 2, 3}
    /\ calls[1].pkt.data = <<33, 249, 4, 0>>
    /\ calls[2].pkt.data = <<>>
    /\ calls[3].pkt.data = <<44, 0, 59>>

\* 0 for the sentinel, otherwise the mathematical difference pts - prev
\* clamped to [0, 65535].
ClampedDelta(pts, prev) ==
    IF pts = AV_NOPTS_VALUE THEN 0
    ELSE IF Less64(pts, prev) THEN 0
    ELSE IF SmallStep(prev, pts) THEN Sub64(pts, prev)[4]
    ELSE 65535

\* C2: the written duration is 0 for the no-timestamp sentinel and otherwise
\* the mathematical difference (timestamp - previous timestamp) clamped to
\* [0, 65535], for every pair of 64-bit timestamps.
C2_DurationClamped ==
    \A i \in Written :
        WrittenDuration(i) = ClampedDelta(calls[i].pkt.pts, calls[i].prev)

\* C3 as stated: the duration written for the first frame is 0 whatever its
\* timestamp.
C3_FirstDurationZero ==
    \A i \in Written : IsFirst(i) => WrittenDuration(i) = 0

\* The timestamp t has a magnitude below 2^31.
IsInt32(t) ==
    \/ t[1] = 0 /\ t[2] = 0 /\ t[3] < 32768
    \/ t[1] = 65535 /\ t[2] = 65535 /\ t[3] >= 32768 /\ <<t[3], t[4]>> # <<32768, 0>>

\* C3 amended: the previous timestamp starts at 0, so the first frame's
\* duration is 0 for the sentinel and otherwise the frame's own timestamp
\* clamped to [0, 65535] (timestamps of magnitude below 2^31).
C3_FirstDurationIsTimestamp ==
    \A i \in Written :
        IsFirst(i) =>
            LET t == calls[i].pkt.pts
            IN  /\ calls[i].prev = I64(0)
                /\ t = AV_NOPTS_VALUE => WrittenDuration(i) = 0
                /\ (t # AV_NOPTS_VALUE /\ IsInt32(t)) =>
                       WrittenDuration(i)
                           = (IF ToInt(t) < 0 THEN 0
                              ELSE IF ToInt(t) > 65535 THEN 65535
                              ELSE ToInt(t))

C3_Witness ==
    /\ Len(calls) >= 2
    /\ ~Ok(1)
    /\ IsFirst(2)
    /\ calls[2].pkt.pts = I64(100)
    /\ WrittenDuration(2) = 100

\* C4: writeFrame fails exactly when the frame carries a side-data palette
\* whose size is not 1024 bytes; it then returns the invalid-data error and
\* appends nothing to the sink.  Every other call succeeds.
C4_FailsIffPaletteSize ==
    [][calls' # calls =>
           LET c == calls'[Len(calls')]
               bad == c.pkt.palette.present /\ c.pkt.palette.size # 1024
           IN  /\ (c.ret # 0) <=> bad
               /\ ret' = c.ret
               /\ bad => (ret' = AVERROR_INVALIDDATA /\ out' = out)
               /\ ~bad => (ret' = 0 /\ Len(out') = Len(out) + 8 + Len(c.pkt.data))
      ]_vars

C4_Witness ==
    /\ Len(calls) = 3
    /\ calls[1].pkt.palette.size = 1028 /\ calls[1].ret = AVERROR_INVALIDDATA
    /\ calls[2].pkt.palette.size = 1024 /\ Ok(2)
    /\ ~calls[3].pkt.palette.present /\ Ok(3)
    /\ calls[2].at = calls[1].at

\* C5: without a side-data palette the control block carries flags 0x04 and
\* index 0x1F; with one, the index is a position holding the smallest alpha
\* and the flags are 0x05 if that alpha is below 128 and 0x04 otherwise.
C5_Transparency ==
    \A i \in Written :
        LET p == calls[i].pkt.palette
        IN  /\ WrittenFlags(i) \in {4, 5}
            /\ ~p.present => (WrittenFlags(i) = 4 /\ WrittenIndex(i) = 31)
            /\ p.present =>
                   LET m == MinAlpha(p.entries)
                   IN  /\ Alpha(p.entries[WrittenIndex(i)]) = m
                       /\ WrittenFlags(i) = (IF m < 128 THEN 5 ELSE 4)

C5_Witness ==
    /\ Len(calls) = 3
    /\ calls[1].pkt.palette = Palette(Min128Pal) /\ Ok(1) /\ WrittenFlags(1) = 4
    /\ calls[2].pkt.palette = Palette(Min127Pal) /\ Ok(2) /\ WrittenFlags(2) = 5
    /\ WrittenIndex(2) = 255
    /\ ~calls[3].pkt.palette.present /\ Ok(3)

\* C6: with a global palette the header carries flags 0xF7, background 0x1F,
\* aspect 0 and the 256 entries in order as R, G, B; without one it carries
\* 0, 0, 0 and no colour table.  The loop extension follows immediately.
C6_ScreenDescriptor ==
    HeaderDone =>
        IF cfg.palette.present
        THEN /\ SubSeq(out, 11, 13) = <<247, 31, 0>>
             /\ \A i \in 0..255 :
                    LET v == cfg.palette.entries[i]
                    IN  SubSeq(out, 14 + 3 * i, 16 + 3 * i)
                            = <<v[1] % 256, v[2] \div 256, v[2] % 256>>
             /\ SubSeq(out, 782, 784) = <<33, 255, 11>>
             /\ SubSeq(out, 785, 795) = NetscapeId
             /\ Len(out) >= 800
        ELSE /\ SubSeq(out, 11, 13) = <<0, 0, 0>>
             /\ SubSeq(out, 14, 16) = <<33, 255, 11>>
             /\ SubSeq(out, 17, 27) = NetscapeId
             /\ Len(out) >= 32

C6_Witness ==
    /\ HeaderDone
    /\ cfg.palette = Palette(Rgb8Pal)
    /\ SubSeq(out, 14 + 3 * 255, 16 + 3 * 255) = <<252, 252, 255>>

\* What a reader of the header decodes: the size of the colour table from the
\* flags byte, the 16-bit little-endian fields.
ReadColorTableLen ==
    IF out[11] >= 128 THEN 3 * 2 ^ ((out[11] % 8) + 1) ELSE 0

ReadWidth == out[7] + 256 * out[8]

ReadHeight == out[9] + 256 * out[10]

ReadLoop ==
    LET e == 13 + ReadColorTableLen
    IN  out[e + 17] + 256 * out[e + 18]

\* C7: for width, height and loop count in [0, 65535], a reader of the header
\* (16-bit little-endian at offsets 6 and 8; the colour table skipped as the
\* flags byte says; the loop count in the sub-block of the loop extension)
\* recovers the width, the height and the loop count.
C7_HeaderRoundTrip ==
    (/\ HeaderDone
     /\ cfg.width \in 0..65535
     /\ cfg.height \in 0..65535
     /\ loop \in 0..65535) =>
        /\ ReadWidth = cfg.width
        /\ ReadHeight = cfg.height
        /\ ReadLoop = loop
        /\ out[13 + ReadColorTableLen + 19] = 0

C7_Witness ==
    /\ HeaderDone
    /\ cfg.palette.present
    /\ cfg.width = 256 /\ cfg.height = 65535 /\ loop = 255
    /\ ReadWidth = 256 /\ ReadHeight = 65535 /\ ReadLoop = 255

\* C8: a successful writeFrame leaves the previous timestamp equal to the
\* frame's timestamp (the sentinel included); a failed one leaves it alone;
\* no call changes the loop count; writeHeader and writeTrailer change
\* neither.
C8_SessionState ==
    [][/\ loop' = loop
       /\ IF calls' # calls
          THEN LET c == calls'[Len(calls')]
               IN  IF c.ret = 0 THEN prev_pts' = c.pkt.pts
                   ELSE prev_pts' = prev_pts
          ELSE prev_pts' = prev_pts
      ]_vars

C8_Witness ==
    /\ phase = "done"
    /\ Len(calls) = 3
    /\ Ok(1) /\ calls[1].pkt.pts = I64(150)
    /\ Ok(2) /\ calls[2].pkt.pts = AV_NOPTS_VALUE
    /\ ~Ok(3)
    /\ prev_pts = AV_NOPTS_VALUE

RECURSIVE SumDurations(_)
\* The sum of the durations written by the calls in I.
SumDurations(I) ==
    IF I = {} THEN 0
    ELSE LET i == CHOOSE x \in I : TRUE
         IN  WrittenDuration(i) + SumDurations(I \ {i})

\* The written timestamps are real, non-decreasing and at most 65535 apart.
Regular ==
    /\ \A i \in Written : calls[i].pkt.pts # AV_NOPTS_VALUE
    /\ \A i, j \in Written :
           (i < j /\ \A k \in (i + 1)..(j - 1) : ~Ok(k)) =>
               SmallStep(calls[i].pkt.pts, calls[j].pkt.pts)

\* C9: over written frames whose timestamps are real, non-decreasing and at
\* most 65535 apart, the durations of frames 2..n add up to
\* timestamp(f_n) - timestamp(f_1); failed calls in between change nothing.
C9_DurationsTelescope ==
    (Cardinality(Written) >= 2 /\ Regular) =>
        LET first == CHOOSE i \in Written : \A j \in Written : i <= j
            last == CHOOSE i \in Written : \A j \in Written : j <= i
        IN  SumDurations(Written \ {first})
                = ToInt(Sub64(calls[last].pkt.pts, calls[first].pkt.pts))

C9_Witness ==
    /\ Len(calls) = 4
    /\ Ok(1) /\ calls[1].pkt.pts = I64(100)
    /\ Ok(2) /\ calls[2].pkt.pts = I64(150)
    /\ ~Ok(3)
    /\ Ok(4) /\ calls[4].pkt.pts = I64(65685)
    /\ WrittenDuration(2) = 50
    /\ WrittenDuration(4) = 65535

\* C10 as stated: with a side-data palette the written index is the lowest
\* position holding the smallest alpha, also when every alpha is 0xFF.
C10_LowestPosition ==
    \A i \in Written :
        LET p == calls[i].pkt.palette
        IN  p.present =>
                WrittenIndex(i) = LowestPosition(p.entries, MinAlpha(p.entries))

\* C10 amended: the written index is the lowest position holding the
\* smallest alpha when that alpha is below 0xFF; when every alpha is 0xFF it
\* is the default 0x1F.
C10_LowestPositionBelowOpaque ==
    \A i \in Written :
        LET p == calls[i].pkt.palette
        IN  p.present =>
                LET m == MinAlpha(p.entries)
                IN  WrittenIndex(i)
                        = (IF m < 255 THEN LowestPosition(p.entries, m) ELSE 31)

C10_Witness ==
    /\ Len(calls) = 3
    /\ calls[1].pkt.palette = Palette(Min50Pal) /\ Ok(1) /\ WrittenIndex(1) = 7
    /\ calls[2].pkt.palette = Palette(OpaquePal) /\ Ok(2) /\ WrittenIndex(2) = 31
    /\ calls[3].pkt.palette = Palette(ClearPal) /\ Ok(3) /\ WrittenIndex(3) = 0

====
